---- MODULE Spec2Model ----
(***************************************************************************)
(* Playlist API (application/app/app.py): Flask request handlers over one  *)
(* MongoDB collection.  The collection is the only shared state; every     *)
(* handler is a sequence of store calls, and handlers of concurrent        *)
(* requests interleave between store calls.                                *)
(***************************************************************************)
EXTENDS Integers, Sequences, FiniteSets, TLC

\* ------------------------------------------------------------------ bounds

\* insert_one calls that succeed in one behaviour (caps the _id counter)
MaxInserts == 3

\* concurrent request workers
Procs == {"w1", "w2"}

\* URL path segments <name>
Names == {"a", "b"}

\* ------------------------------------------------------- program constants

DefaultPage == 1
DefaultPerPage == 10
MaxPerPage == 50

\* ------------------------------------------------------------ JSON values

\* a key that is not in a mapping, a query argument that is not in the URL
Absent == "<absent>"

Keys == {"name", "songs"}

\* JSON values by their text: a list has a len(), a number has none
SizedVals == {"[s1]", "a", "b"}
UnsizedVals == {"5"}

\* a JSON object: every key of Keys to a value, or to Absent
EmptyObj == [k \in Keys |-> Absent]

Obj(n, s) == [k \in Keys |-> IF k = "name" THEN n ELSE s]

BodyObjects ==
    {Obj(n, s) : n \in {Absent, "b"}, s \in {Absent, "[s1]"} \cup UnsizedVals}

\* python truthiness of a parsed JSON object: non-empty
NonEmpty(o) == \E k \in Keys : o[k] # Absent

\* A request body: what request.is_json and request.get_json() make of it.
\*   nonjson    the content type is not JSON (also: no body, no content type)
\*   malformed  JSON content type, text that does not parse (also: no text)
\*   null / array / scalar / object   the parsed JSON value
Body(kind, truthy, o) == [kind |-> kind, truthy |-> truthy, obj |-> o]

Bodies ==
    {Body("nonjson", FALSE, EmptyObj), Body("malformed", FALSE, EmptyObj),
     Body("null", FALSE, EmptyObj),
     Body("array", FALSE, EmptyObj), Body("array", TRUE, EmptyObj),
     Body("scalar", FALSE, EmptyObj), Body("scalar", TRUE, EmptyObj)}
    \cup {Body("object", NonEmpty(o), o) : o \in BodyObjects}

NoBody == Body("none", FALSE, EmptyObj)

\* query arguments of GET /playlists: << >> when the URL has none, <<v>> for v
PageArgs == {<< >>, <<0>>, <<2>>}
PerPageArgs == {<< >>, <<-1>>, <<0>>, <<2>>, <<51>>}

\* int(request.args.get(key, default))
IntArg(arg, default) == IF arg = << >> THEN default ELSE arg[1]

\* ------------------------------------------------------------------ store

\* find_one's None
NoDoc == [id |-> 0, fields |-> EmptyObj, path |-> Absent]

Matches(s, name) == {i \in 1..Len(s) : s[i].fields["name"] = name}

FirstOf(S) == CHOOSE i \in S : \A j \in S : i <= j

NameInStore(s, name) == \E i \in 1..Len(s) : s[i].fields["name"] = name

\* collection.find_one({'name': name})
find_one(s, name) ==
    IF Matches(s, name) = {} THEN NoDoc ELSE s[FirstOf(Matches(s, name))]

\* collection.insert_one(playlist); path records the URL name of the request
insert_one(s, playlist, id, path) ==
    Append(s, [id |-> id, fields |-> playlist, path |-> path])

\* {'$set': playlist} on one document
SetFields(fields, playlist) ==
    [k \in Keys |-> IF playlist[k] # Absent THEN playlist[k] ELSE fields[k]]

\* update_one with upsert=True
UpdateOneUpsert(s, name, playlist) ==
    IF Matches(s, name) = {}
    THEN Append(s, [id |-> 0, fields |-> [playlist EXCEPT !["name"] = name],
                    path |-> name])
    ELSE LET i == FirstOf(Matches(s, name))
         IN  [s EXCEPT ![i].fields = SetFields(s[i].fields, playlist)]

\* collection.update_one({'name': name}, {'$set': playlist}), no upsert
update_one(s, name, playlist) ==
    IF Matches(s, name) = {} THEN s
    ELSE LET i == FirstOf(Matches(s, name))
         IN  [s EXCEPT ![i].fields = SetFields(s[i].fields, playlist)]

\* collection.delete_one({'name': name})
delete_one(s, name) ==
    IF Matches(s, name) = {} THEN s
    ELSE LET i == FirstOf(Matches(s, name))
         IN  SubSeq(s, 1, i - 1) \o SubSeq(s, i + 1, Len(s))

\* collection.delete_many({})
delete_many(s) == << >>

\* collection.count_documents({})
count_documents(s) == Len(s)

Abs(x) == IF x < 0 THEN -x ELSE x

Min(x, y) == IF x <= y THEN x ELSE y

\* list(collection.find().skip(skip).limit(limit)), skip >= 0;
\* limit 0 is no limit, a negative limit is its absolute value
find_skip_limit(s, skip, limit) ==
    LET last == IF limit = 0 THEN Len(s) ELSE Min(Len(s), skip + Abs(limit))
    IN  SubSeq(s, skip + 1, last)

\* python's a // b, b # 0
FloorDiv(a, b) == IF b > 0 THEN a \div b ELSE (-a) \div (-b)

\* ------------------------------------------------------------------ state

VARIABLES
    store,        \* the playlists collection, in natural (insertion) order
    nextId,       \* the _id the next insert_one assigns
    req,          \* each worker's request in flight, between its store calls
    resp,         \* the response just produced, until the client has it
    lastCreated,  \* history: the Create that returned 201 with no request since
    deleted       \* history: names whose Delete returned 200, no Create since

vars == <<store, nextId, req, resp, lastCreated, deleted>>

Idle ==
    [pc |-> "idle", name |-> Absent, body |-> NoBody, playlist |-> EmptyObj,
     present |-> FALSE, pageArg |-> << >>, perPageArg |-> << >>,
     page |-> 0, per_page |-> 0, playlists |-> << >>]

NoResp ==
    [p |-> Absent, op |-> "none", name |-> Absent, body |-> NoBody,
     status |-> 0, present |-> FALSE, again |-> FALSE,
     created |-> [name |-> Absent, playlist |-> EmptyObj],
     failed |-> FALSE, calls |-> 0, pre |-> << >>,
     rname |-> Absent, rid |-> 0, doc |-> NoDoc,
     pageArg |-> << >>, perPageArg |-> << >>, page |-> 0, per_page |-> 0,
     total |-> 0, pages |-> 0, playlists |-> << >>, deleted_count |-> 0]

NoCreated == [name |-> Absent, playlist |-> EmptyObj]

\* the response record of worker p's request, before the handler fills it in;
\* pre is the collection as the handler's last step found it
Response(p, op, name, body) ==
    [NoResp EXCEPT !.p = p, !.op = op, !.name = name, !.body = body,
                   !.pre = store]

\* the handler returns: the response goes out and the worker is free
Return(p, r) ==
    /\ resp' = r
    /\ req' = [req EXCEPT ![p] = Idle]

Init ==
    /\ store = << >>
    /\ nextId = 1
    /\ req = [p \in Procs |-> Idle]
    /\ resp = NoResp
    /\ lastCreated = NoCreated
    /\ deleted = {}

\* the client takes the response; resp shows one response at a time, so a
\* handler step waits until the last response is taken (store and req, the
\* program's own state, are not touched by this step)
Ack ==
    /\ resp # NoResp
    /\ resp' = NoResp
    /\ UNCHANGED <<store, nextId, req, lastCreated, deleted>>

\* ----------------------------------------------------- what handlers share

\* lines 60-72 and 106-118: is_json, get_json(), "playlist is None or not
\* playlist"; "ok" when the handler goes on to its try block
Validate(body) ==
    IF body.kind = "nonjson" THEN "not_json"
    ELSE IF body.kind = "malformed" THEN "invalid_json"
    ELSE IF ~body.truthy THEN "empty"
    ELSE "ok"

\* playlist['name'] = name and playlist.pop('name', None) raise on a parsed
\* value that is not a dict (TypeError, AttributeError), inside the try block
IsDict(body) == body.kind = "object"

\* playlist['name'] = name
set_name(playlist, name) == [playlist EXCEPT !["name"] = name]

\* pop_name without the pop
PopNothing(playlist) == playlist

\* playlist.pop('name', None)
pop_name(playlist) == [playlist EXCEPT !["name"] = Absent]

\* Existing without the check
ExistingNever(doc) == FALSE

\* "if existing:" on find_one's result
Existing(doc) == doc # NoDoc

\* len(playlist.get('songs', [])) raises TypeError on a value without len()
SongsHaveLen(playlist) ==
    playlist["songs"] = Absent \/ playlist["songs"] \in SizedVals

\* StoreErrorStatus of a handler that swallows the exception
StoreErrorSwallowed(op) == 200

\* "except Exception as e" around a store call that raised
StoreErrorStatus(op) == IF op = "Health" THEN 503 ELSE 500

StoreError(r) ==
    [r EXCEPT !.status = StoreErrorStatus(r.op), !.failed = TRUE]

OthersIdle(p) == \A q \in Procs \ {p} : req[q].pc = "idle"

\* -------------------------------------------- POST /playlists/<name>

\* add_playlist up to and including find_one; ok: the store call succeeds
add_playlist_find_one(p, name, body, ok) ==
    /\ resp = NoResp
    /\ req[p].pc = "idle"
    /\ LET r == [Response(p, "Create", name, body) EXCEPT
                     !.present = NameInStore(store, name)]
       IN  IF Validate(body) # "ok"
           THEN Return(p, [r EXCEPT !.status = 400])
           ELSE IF ~IsDict(body)
           THEN Return(p, [r EXCEPT !.status = 500])
           ELSE IF ~ok
           THEN Return(p, StoreError([r EXCEPT !.calls = 1]))
           ELSE IF Existing(find_one(store, name))
           THEN Return(p, [r EXCEPT !.status = 409, !.calls = 1])
           ELSE /\ req' = [req EXCEPT ![p] =
                       [Idle EXCEPT !.pc = "insert", !.name = name,
                                    !.body = body,
                                    !.playlist = set_name(body.obj, name),
                                    !.present = NameInStore(store, name)]]
                /\ resp' = resp
    /\ lastCreated' = NoCreated
    /\ deleted' = deleted \ {name}
    /\ UNCHANGED <<store, nextId>>

\* add_playlist from insert_one to its return
add_playlist_insert_one(p, ok) ==
    /\ resp = NoResp
    /\ req[p].pc = "insert"
    /\ nextId <= MaxInserts
    /\ LET q == req[p]
           r == [Response(p, "Create", q.name, q.body) EXCEPT
                     !.present = q.present, !.calls = 2]
       IN  /\ deleted' = deleted \ {q.name}
           /\ IF ~ok
              THEN /\ Return(p, StoreError(r))
                   /\ lastCreated' = NoCreated
                   /\ UNCHANGED <<store, nextId>>
              ELSE /\ store' = insert_one(store, q.playlist, nextId, q.name)
                   /\ nextId' = nextId + 1
                   /\ IF ~SongsHaveLen(q.playlist)
                      THEN /\ Return(p, [r EXCEPT !.status = 500])
                           /\ lastCreated' = NoCreated
                      ELSE /\ Return(p, [r EXCEPT !.status = 201,
                                                  !.rname = q.name,
                                                  !.rid = nextId])
                           /\ lastCreated' =
                                  IF OthersIdle(p)
                                  THEN [name |-> q.name,
                                        playlist |-> q.playlist]
                                  ELSE NoCreated

\* --------------------------------------------- PUT /playlists/<name>

update_playlist(p, name, body, ok) ==
    /\ resp = NoResp
    /\ req[p].pc = "idle"
    /\ LET r == [Response(p, "Update", name, body) EXCEPT
                     !.present = NameInStore(store, name)]
       IN  IF Validate(body) # "ok"
           THEN Return(p, [r EXCEPT !.status = 400]) /\ store' = store
           ELSE IF ~IsDict(body)
           THEN Return(p, [r EXCEPT !.status = 500]) /\ store' = store
           ELSE IF ~ok
           THEN Return(p, StoreError([r EXCEPT !.calls = 1]))
                /\ store' = store
           ELSE /\ store' = update_one(store, name, pop_name(body.obj))
                /\ IF Matches(store, name) = {}
                   THEN Return(p, [r EXCEPT !.status = 404, !.calls = 1])
                   ELSE Return(p, [r EXCEPT !.status = 200, !.calls = 1])
    /\ lastCreated' = NoCreated
    /\ UNCHANGED <<nextId, deleted>>

\* ------------------------------------------ DELETE /playlists/<name>

delete_playlist(p, name, ok) ==
    /\ resp = NoResp
    /\ req[p].pc = "idle"
    /\ LET r == [Response(p, "Delete", name, NoBody) EXCEPT
                     !.present = NameInStore(store, name),
                     !.again = (name \in deleted), !.calls = 1]
           after == delete_one(store, name)
           deleted_count == Len(store) - Len(after)
       IN  IF ~ok
           THEN Return(p, StoreError(r)) /\ UNCHANGED <<store, deleted>>
           ELSE /\ store' = after
                /\ IF deleted_count = 0
                   THEN Return(p, [r EXCEPT !.status = 404])
                        /\ deleted' = deleted
                   ELSE Return(p, [r EXCEPT !.status = 200])
                        /\ deleted' = deleted \cup {name}
    /\ lastCreated' = NoCreated
    /\ UNCHANGED nextId

\* --------------------------------------------- GET /playlists/<name>

get_playlist(p, name, ok) ==
    /\ resp = NoResp
    /\ req[p].pc = "idle"
    /\ LET r == [Response(p, "Get", name, NoBody) EXCEPT
                     !.present = NameInStore(store, name),
                     !.created = IF lastCreated.name = name
                                 THEN lastCreated ELSE NoCreated,
                     !.calls = 1]
           playlist == find_one(store, name)
       IN  IF ~ok
           THEN Return(p, StoreError(r))
           ELSE IF playlist = NoDoc
           THEN Return(p, [r EXCEPT !.status = 404])
           ELSE IF ~SongsHaveLen(playlist.fields)
           THEN Return(p, [r EXCEPT !.status = 500])
           ELSE Return(p, [r EXCEPT !.status = 200, !.doc = playlist])
    /\ lastCreated' = NoCreated
    /\ UNCHANGED <<store, nextId, deleted>>

\* --------------------------------------------------- GET /playlists

\* min(int(request.args.get('per_page', 10)), 50)
per_page_of(perPageArg) == Min(IntArg(perPageArg, DefaultPerPage), MaxPerPage)

\* (total + per_page - 1) // per_page if total > 0 else 0, per_page # 0
pages_of(total, per_page) ==
    IF total > 0 THEN FloorDiv(total + per_page - 1, per_page) ELSE 0

\* get_all_playlists up to and including list(find().skip().limit());
\* Cursor.skip raises ValueError on a negative skip, before any store call
get_all_playlists_find(p, pageArg, perPageArg, ok) ==
    /\ resp = NoResp
    /\ req[p].pc = "idle"
    /\ LET page == IntArg(pageArg, DefaultPage)
           per_page == per_page_of(perPageArg)
           skip == (page - 1) * per_page
           r == [Response(p, "List", Absent, NoBody) EXCEPT
                     !.pageArg = pageArg, !.perPageArg = perPageArg,
                     !.page = page, !.per_page = per_page]
       IN  IF skip < 0
           THEN Return(p, [r EXCEPT !.status = 500])
           ELSE IF ~ok
           THEN Return(p, StoreError([r EXCEPT !.calls = 1]))
           ELSE /\ req' = [req EXCEPT ![p] =
                       [Idle EXCEPT !.pc = "count",
                                    !.pageArg = pageArg,
                                    !.perPageArg = perPageArg,
                                    !.page = page, !.per_page = per_page,
                                    !.playlists =
                                        find_skip_limit(store, skip, per_page)]]
                /\ resp' = resp
    /\ lastCreated' = NoCreated
    /\ UNCHANGED <<store, nextId, deleted>>

\* get_all_playlists from count_documents to its return; the division by a
\* per_page of 0 raises ZeroDivisionError
get_all_playlists_count(p, ok) ==
    /\ resp = NoResp
    /\ req[p].pc = "count"
    /\ LET q == req[p]
           total == count_documents(store)
           r == [Response(p, "List", Absent, NoBody) EXCEPT
                     !.pageArg = q.pageArg, !.perPageArg = q.perPageArg,
                     !.page = q.page, !.per_page = q.per_page,
                     !.playlists = q.playlists, !.calls = 2]
       IN  IF ~ok
           THEN Return(p, StoreError(r))
           ELSE IF total > 0 /\ q.per_page = 0
           THEN Return(p, [r EXCEPT !.status = 500, !.total = total])
           ELSE Return(p, [r EXCEPT !.status = 200, !.total = total,
                                    !.pages = pages_of(total, q.per_page)])
    /\ lastCreated' = NoCreated
    /\ UNCHANGED <<store, nextId, deleted>>

\* ------------------------------------------------ DELETE /playlists

delete_all_playlists(p, ok) ==
    /\ resp = NoResp
    /\ req[p].pc = "idle"
    /\ LET r == [Response(p, "DeleteAll", Absent, NoBody) EXCEPT !.calls = 1]
       IN  IF ~ok
           THEN Return(p, StoreError(r)) /\ store' = store
           ELSE /\ store' = delete_many(store)
                /\ Return(p, [r EXCEPT !.status = 200,
                                       !.deleted_count = Len(store)])
    /\ lastCreated' = NoCreated
    /\ UNCHANGED <<nextId, deleted>>

\* ------------------------------------------------------ GET /health

health_check(p, ok) ==
    /\ resp = NoResp
    /\ req[p].pc = "idle"
    /\ LET r == [Response(p, "Health", Absent, NoBody) EXCEPT !.calls = 1]
       IN  IF ~ok
           THEN Return(p, StoreError(r))
           ELSE Return(p, [r EXCEPT !.status = 200])
    /\ lastCreated' = NoCreated
    /\ UNCHANGED <<store, nextId, deleted>>

\* ---------------------------------------------------- specifications

AddFind == \E p \in Procs, name \in Names, body \in Bodies, ok \in BOOLEAN :
               add_playlist_find_one(p, name, body, ok)

AddInsert == \E p \in Procs, ok \in BOOLEAN : add_playlist_insert_one(p, ok)

Update == \E p \in Procs, name \in Names, body \in Bodies, ok \in BOOLEAN :
              update_playlist(p, name, body, ok)

Delete == \E p \in Procs, name \in Names, ok \in BOOLEAN :
              delete_playlist(p, name, ok)

Get == \E p \in Procs, name \in Names, ok \in BOOLEAN :
           get_playlist(p, name, ok)

DeleteAll == \E p \in Procs, ok \in BOOLEAN : delete_all_playlists(p, ok)

Health == \E p \in Procs, ok \in BOOLEAN : health_check(p, ok)

ListFind == \E p \in Procs, pageArg \in PageArgs, perPageArg \in PerPageArgs,
               ok \in BOOLEAN :
                get_all_playlists_find(p, pageArg, perPageArg, ok)

ListCount == \E p \in Procs, ok \in BOOLEAN : get_all_playlists_count(p, ok)

\* concurrent requests on single playlists
Next ==
    \/ AddFind
    \/ AddInsert
    \/ Update
    \/ Delete
    \/ Get
    \/ DeleteAll
    \/ Health
    \/ Ack

Spec == Init /\ [][Next]_vars

\* the body the List specification creates playlists with
ListBody == Body("object", TRUE, Obj(Absent, "[s1]"))

ListAddFind == \E p \in Procs, name \in Names, ok \in BOOLEAN :
                   add_playlist_find_one(p, name, ListBody, ok)

ListUpdate == \E p \in Procs, name \in Names, ok \in BOOLEAN :
                  update_playlist(p, name, ListBody, ok)

\* paginated listing, concurrent with every other handler
NextList ==
    \/ ListFind
    \/ ListCount
    \/ ListAddFind
    \/ AddInsert
    \/ ListUpdate
    \/ Delete
    \/ Get
    \/ DeleteAll
    \/ Health
    \/ Ack

SpecList == Init /\ [][NextList]_vars

\* ------------------------------------------------------------- properties

\* a body the validation lets through and the handler can use: a non-empty
\* JSON object
ValidBody(body) == Validate(body) = "ok" /\ IsDict(body)

\* a response is out, of a request of kind op
Answered(op) == resp.op = op

\* C1: no two stored playlist documents have the same name, whatever the
\* interleaving of the requests.
UniqueNames ==
    \A i, j \in 1..Len(store) :
        i # j => store[i].fields["name"] # store[j].fields["name"]

\* C2: a Create whose name is in the store when its existence check runs
\* leaves the store as it was, and returns 409 when its body is a non-empty
\* JSON object and the lookup does not fail.
CreateExistingConflicts ==
    (Answered("Create") /\ resp.present) =>
        /\ store = resp.pre
        /\ (ValidBody(resp.body) /\ ~resp.failed) =>
               (resp.status = 409 /\ resp.calls = 1)

CreateExistingWitness ==
    /\ Answered("Create")
    /\ resp.present
    /\ resp.status = 409
    /\ Len(store) > 0

\* C3: a Create with a non-empty JSON object for a name that is not in the
\* store returns 201, echoes the path name, and inserts exactly one document
\* of that name, whatever fields the body has.
CreateNewSucceeds ==
    (Answered("Create") /\ ValidBody(resp.body) /\ ~resp.present
         /\ ~resp.failed) =>
        /\ resp.status = 201
        /\ resp.rname = resp.name
        /\ Len(store) = Len(resp.pre) + 1
        /\ SubSeq(store, 1, Len(resp.pre)) = resp.pre
        /\ store[Len(store)].fields["name"] = resp.name

\* C4: a Get right after a Create that returned 201, no request in between,
\* returns 200 and a document with the path name and the created fields.
ReadAfterCreate ==
    (Answered("Get") /\ resp.created # NoCreated /\ ~resp.failed) =>
        /\ resp.status = 200
        /\ resp.doc.fields["name"] = resp.name
        /\ \A k \in Keys :
               resp.created.playlist[k] # Absent =>
                   resp.doc.fields[k] = resp.created.playlist[k]

\* C5: every stored document's name is the URL name it was created under,
\* and an Update changes no stored name, whatever name its body carries.
NameImmutable ==
    /\ \A i \in 1..Len(store) : store[i].fields["name"] = store[i].path
    /\ Answered("Update") =>
           /\ Len(store) = Len(resp.pre)
           /\ \A i \in 1..Len(store) :
                  store[i].fields["name"] = resp.pre[i].fields["name"]

NameImmutableWitness ==
    /\ Answered("Update")
    /\ resp.status = 200
    /\ resp.body.obj["name"] \notin {Absent, resp.name}
    /\ store # resp.pre

\* C6: an Update with a non-empty JSON object for a name that is not in the
\* store returns 404 and leaves the store as it was: no document is created.
UpdateMissing ==
    (Answered("Update") /\ ValidBody(resp.body) /\ ~resp.present
         /\ ~resp.failed) =>
        /\ resp.status = 404
        /\ store = resp.pre
        /\ ~NameInStore(store, resp.name)

UpdateMissingWitness ==
    /\ Answered("Update")
    /\ resp.status = 404
    /\ ~resp.present
    /\ Len(store) > 0

\* C7: a Delete of a name in the store returns 200 and removes a document;
\* a further Delete of that name, no Create of it in between, returns 404
\* and leaves the store as it was.
DeleteTwice ==
    (Answered("Delete") /\ ~resp.failed) =>
        /\ resp.present =>
               (resp.status = 200 /\ Len(store) = Len(resp.pre) - 1)
        /\ resp.again => (resp.status = 404 /\ store = resp.pre)

\* C8: a Create or Update whose body is absent, not JSON, malformed, empty,
\* or not a JSON object returns 400 without any store call.
InvalidBodyRejected ==
    ((Answered("Create") \/ Answered("Update")) /\ ~ValidBody(resp.body)) =>
        /\ resp.status = 400
        /\ resp.calls = 0
        /\ store = resp.pre

\* the ceiling of a / b, b # 0
Ceil(a, b) == -FloorDiv(-a, b)

\* C9: List answers 200 for all integer page and per_page, with per_page the
\* requested one capped at 50 and pages = ceil(total / per_page), 0 when the
\* collection is empty.
ListPages ==
    (Answered("List") /\ ~resp.failed) =>
        /\ resp.status = 200
        /\ resp.per_page = Min(IntArg(resp.perPageArg, DefaultPerPage), MaxPerPage)
        /\ resp.total = Len(store)
        /\ resp.pages = IF resp.total = 0 THEN 0
                        ELSE Ceil(resp.total, resp.per_page)

\* store calls a handler makes at most
MaxCalls(op) == IF op \in {"Create", "List"} THEN 2 ELSE 1

\* C10: a store call that fails ends its request with one 500 (503 for the
\* health check), the store as it was, no retry and no further store call,
\* and the worker free for the next request.
StoreFailureBoundary ==
    resp.failed =>
        /\ resp.status = IF resp.op = "Health" THEN 503 ELSE 500
        /\ store = resp.pre
        /\ resp.calls <= MaxCalls(resp.op)
        /\ req[resp.p] = Idle

StoreFailureWitness ==
    /\ resp.failed
    /\ resp.op = "List"
    /\ resp.calls = 2
    /\ resp.status = 500
    /\ Len(store) > 0

====
